---- MODULE Spec2Model ----
(***************************************************************************)
(* RPS-Engine: the per-frame pipeline of main.py (update of every sprite,  *)
(* then CollisionManager.resolve_all) as a state machine.                  *)
(*                                                                         *)
(* Number model.  Python floats are fixed-point integers: a centre is in   *)
(* units of 1/Q pixel, a velocity in units of 1/VQ px/s, a unit normal in  *)
(* units of 1/NQ, time in milliseconds.  A quotient that is not a whole    *)
(* number of units is rounded to the nearest unit and the pair resolution  *)
(* that took it is logged with exact = FALSE; the geometric statements are *)
(* made about the resolutions whose arithmetic was exact.                  *)
(***************************************************************************)
EXTENDS Integers, Sequences, FiniteSets, TLC

VARIABLES
    sprites,      \* main.py `sprites`: index -> RPS object (record)
    mgr,          \* main.py `collisions`: the CollisionManager's fields, or NoMgr
    last_morph,   \* CollisionManager._last_morph: id(sprite) -> time of last morph
    clock,        \* time.time() in ms
    phase,        \* position in the main loop
    ticks,        \* loop iterations started
    dt,           \* main.py `dt`: the last frame time, in ms
    before,       \* the sprites as they were when the last update(dt) pass began
    events,       \* log of the pairs the last resolve_all pass resolved
    changes,      \* per sprite, the times at which its kind changed
    round_active, \* main.py `round_active`: the latch of the winner detection
    scoreboard,   \* Scoreboard.counts: kind -> wins
    awarded,      \* the kinds add_win was called with since the last spawn
    restarts,     \* restarts so far
    spawned_at,   \* the clock when the current population was spawned
    tested,       \* the pairs the last pass put to the narrow-phase test
    handed,       \* the (cell, c2) the last pass handed to _resolve_list, in order
    retired       \* the ledger of the manager the last restart replaced

vars ==
    <<sprites, mgr, last_morph, clock, phase, ticks, dt, before, events, changes,
      round_active, scoreboard, awarded, restarts, spawned_at, tested, handed,
      retired>>

---------------------------------------------------------------------------
(* Scales of the fixed-point number model *)

Q == 100
VQ == 10
NQ == 1000
BQ == 100
RQ == 1000

(* Bounds of the model *)
MaxTicks == 3
MaxRestarts == 1
MaxIcons == 41

---------------------------------------------------------------------------
(* Arithmetic *)

Abs(x) == IF x < 0 THEN -x ELSE x

Sgn(x) == IF x < 0 THEN -1 ELSE IF x > 0 THEN 1 ELSE 0

Min2(a, b) == IF a <= b THEN a ELSE b

Max2(a, b) == IF a >= b THEN a ELSE b

\* a / b for b > 0, rounded to the nearest unit (ties away from zero)
RDiv(a, b) == Sgn(a) * ((2 * Abs(a) + b) \div (2 * b))

\* whether a / b is a whole number of units
Divides(b, a) == Abs(a) % b = 0

\* Python int(x) for a fixed-point x with `scale` units per whole: truncation toward zero
IntOf(x, scale) == Sgn(x) * (Abs(x) \div scale)

\* Python x // y on numbers: floor of the quotient, for y /= 0 of either sign
FloorDiv(x, y) == IF y > 0 THEN x \div y ELSE (-x) \div (-y)

RECURSIVE SqrtSearch(_, _, _)
SqrtSearch(n, lo, hi) ==
    IF lo >= hi THEN lo
    ELSE LET mid == (lo + hi + 1) \div 2
         IN  IF mid * mid <= n THEN SqrtSearch(n, mid, hi)
             ELSE SqrtSearch(n, lo, mid - 1)

\* math.sqrt / math.hypot: the floor of the root; exact on perfect squares
Sqrt(n) == SqrtSearch(n, 0, 46340)

IsSquare(n) == Sqrt(n) * Sqrt(n) = n

---------------------------------------------------------------------------
(* main.py: window, arena, sizing policy *)

WIDTH == 1000
HEIGHT == 700
PANEL_WIDTH == 220
ArenaMargin == 40

\* Arena.__init__: a centred square inset by the margin
ArenaSide == Min2(WIDTH - PANEL_WIDTH, HEIGHT) - 2 * ArenaMargin

arena ==
    LET left == ((WIDTH - PANEL_WIDTH) - ArenaSide) \div 2
        top  == (HEIGHT - ArenaSide) \div 2
    IN  [left |-> left, top |-> top,
         right |-> left + ArenaSide, bottom |-> top + ArenaSide]

Kinds == {"scissors", "stone", "paper"}

\* icon_size_for(n): the side of the square icon for n icons per kind
icon_size_for(n) ==
    IF n <= 2 THEN 100
    ELSE IF n <= 5 THEN 64
    ELSE IF n <= 10 THEN 48
    ELSE IF n <= 20 THEN 40
    ELSE IF n <= 40 THEN 32
    ELSE 24

\* RPS.__init__ / morph_to: radius = 0.45 * max(rect.width, rect.height)
RadiusOf(size) == (45 * size * Q) \div 100

---------------------------------------------------------------------------
(* RPS: the sprite.  cx, cy: float centre; rcx, rcy: rect.centerx/centery  *)
(* (whole pixels); size: the square box's side; vx, vy: velocity.          *)

\* pygame.Rect of a size x size box: centerx = left + size // 2
RectLeft(s)   == s.rcx - (s.size \div 2)
RectRight(s)  == RectLeft(s) + s.size
RectTop(s)    == s.rcy - (s.size \div 2)
RectBottom(s) == RectTop(s) + s.size

\* RPS.set_center
set_center(s, x, y) ==
    [s EXCEPT !.cx = x, !.cy = y, !.rcx = IntOf(x, Q), !.rcy = IntOf(y, Q)]

\* the displacement v * dt, for a frame time of t ms
Travel(v, t) == RDiv(v * t * Q, VQ * 1000)

\* a horizontal bounce that turns the velocity but leaves the rect where it is
BounceXUnclamped(s) ==
    IF RectLeft(s) <= arena.left \/ RectRight(s) >= arena.right
    THEN [s EXCEPT !.vx = -s.vx]
    ELSE s

\* RPS.update, horizontal bounce
BounceX(s) ==
    IF RectLeft(s) <= arena.left
    THEN LET c == arena.left + (s.size \div 2)
         IN  [s EXCEPT !.rcx = c, !.cx = c * Q, !.vx = -s.vx]
    ELSE IF RectRight(s) >= arena.right
    THEN LET c == (arena.right - s.size) + (s.size \div 2)
         IN  [s EXCEPT !.rcx = c, !.cx = c * Q, !.vx = -s.vx]
    ELSE s

\* RPS.update, vertical bounce
BounceY(s) ==
    IF RectTop(s) <= arena.top
    THEN LET c == arena.top + (s.size \div 2)
         IN  [s EXCEPT !.rcy = c, !.cy = c * Q, !.vy = -s.vy]
    ELSE IF RectBottom(s) >= arena.bottom
    THEN LET c == (arena.bottom - s.size) + (s.size \div 2)
         IN  [s EXCEPT !.rcy = c, !.cy = c * Q, !.vy = -s.vy]
    ELSE s

\* RPS.update(dt): integrate, then bounce per axis
Integrate(s, t) == set_center(s, s.cx + Travel(s.vx, t), s.cy + Travel(s.vy, t))

update(s, t) == BounceY(BounceX(Integrate(s, t)))

\* a morph_to that takes the kind that is neither the sprite's nor the target
morph_to_third(s, kind) ==
    [s EXCEPT !.kind = CHOOSE k \in Kinds : k /= s.kind /\ k /= kind,
              !.cx = s.rcx * Q, !.cy = s.rcy * Q, !.radius = RadiusOf(s.size)]

\* RPS.morph_to(kind, img_path): the rect is rebuilt around the integer rect centre
morph_to(s, kind) ==
    [s EXCEPT !.kind = kind, !.cx = s.rcx * Q, !.cy = s.rcy * Q,
              !.radius = RadiusOf(s.size)]

\* morph_to_cached(kind, surface): kind and image only
morph_to_cached(s, kind) == [s EXCEPT !.kind = kind]

\* hasattr(sprite, "morph_to_cached"): the def is nested inside morph_to's body,
\* so the class RPS has no attribute of that name
HasMorphToCached == FALSE

---------------------------------------------------------------------------
(* CollisionManager *)

NoMgr == [constructed |-> FALSE]

\* CollisionManager.__init__: the arguments are stored as given
CollisionManager(assets, cell_size, restitution, separation_bias, min_speed, morph_cooldown) ==
    [constructed |-> TRUE, assets |-> assets, cell_size |-> cell_size,
     restitution |-> restitution, separation_bias |-> separation_bias,
     min_speed |-> min_speed, morph_cooldown |-> morph_cooldown]

\* the defaults of CollisionManager.__init__'s keyword arguments
DefaultCellSize == 128
DefaultRestitution == 1000
DefaultSeparationBias == 101
DefaultMinSpeed == 600
DefaultMorphCooldown == 60

\* a sizing policy with cells of 0.4 x the icon width
make_collision_manager_small_cells(sp) ==
    LET icon_w == sp[1].size
    IN  CollisionManager(TRUE, Max2(32, (icon_w * 4) \div 10), 1000, 102, 600,
                         DefaultMorphCooldown)

\* make_collision_manager_for(sprites, assets)
make_collision_manager_for(sp) ==
    LET icon_w == sp[1].size
    IN  CollisionManager(TRUE, Max2(32, (icon_w * 12) \div 10), 1000, 102, 600,
                         DefaultMorphCooldown)

\* self._last_morph.get(sid, 0.0)
LastMorph(lm, sid) == IF sid \in DOMAIN lm THEN lm[sid] ELSE 0

\* self._last_morph[sid] = now
SetLastMorph(lm, sid, now) ==
    [j \in (DOMAIN lm) \cup {sid} |-> IF j = sid THEN now ELSE lm[j]]

\* random.uniform(0, 360) as a heading (cos, sin), in units of 1/NQ
Headings == {<<1000, 0>>, <<0, 1000>>, <<-600, 800>>, <<-800, -600>>}

\* CollisionManager._enforce_min_speed(S); h is the heading a random draw gives
\* (the 1e-6 threshold is below the velocity grain: a speed under it is 0 units)
SpeedSq(s) == s.vx * s.vx + s.vy * s.vy

NeedsFloor(s, cfg) == Sqrt(SpeedSq(s)) < cfg.min_speed

\* a floor that only replaces a zero velocity
EnforceOnlyAtRest(s, cfg, h) ==
    IF SpeedSq(s) = 0 /\ 0 < cfg.min_speed
    THEN [s EXCEPT !.vx = RDiv(h[1] * cfg.min_speed, NQ),
                   !.vy = RDiv(h[2] * cfg.min_speed, NQ)]
    ELSE s

_enforce_min_speed(s, cfg, h) ==
    LET spd == Sqrt(SpeedSq(s))
    IN  IF spd >= cfg.min_speed THEN s
        ELSE IF SpeedSq(s) = 0
        THEN [s EXCEPT !.vx = RDiv(h[1] * cfg.min_speed, NQ),
                       !.vy = RDiv(h[2] * cfg.min_speed, NQ)]
        ELSE [s EXCEPT !.vx = RDiv(s.vx * cfg.min_speed, spd),
                       !.vy = RDiv(s.vy * cfg.min_speed, spd)]

\* whether _enforce_min_speed(s) was computed without rounding
FloorExact(s, cfg, h) ==
    LET spd == Sqrt(SpeedSq(s))
    IN  IF spd >= cfg.min_speed THEN TRUE
        ELSE IF SpeedSq(s) = 0
        THEN Divides(NQ, h[1] * cfg.min_speed) /\ Divides(NQ, h[2] * cfg.min_speed)
        ELSE /\ IsSquare(SpeedSq(s))
             /\ Divides(spd, s.vx * cfg.min_speed)
             /\ Divides(spd, s.vy * cfg.min_speed)

\* a _try_morph that never looks at the ledger
TryMorphUngated(s, sid, lm, target_kind, now, cfg) ==
    IF s.kind = target_kind
    THEN [s |-> s, lm |-> lm, outcome |-> "same"]
    ELSE [s |-> morph_to(s, target_kind),
          lm |-> SetLastMorph(lm, sid, now), outcome |-> "load"]

\* CollisionManager._try_morph(sprite, target_kind, now):
\* the sprite, the ledger and what happened
_try_morph(s, sid, lm, target_kind, now, cfg) ==
    IF (now - LastMorph(lm, sid)) < cfg.morph_cooldown
    THEN [s |-> s, lm |-> lm, outcome |-> "cooldown"]
    ELSE IF s.kind = target_kind
    THEN [s |-> s, lm |-> lm, outcome |-> "same"]
    ELSE IF cfg.assets /\ HasMorphToCached
    THEN [s |-> morph_to_cached(s, target_kind),
          lm |-> SetLastMorph(lm, sid, now), outcome |-> "cached"]
    ELSE [s |-> morph_to(s, target_kind),
          lm |-> SetLastMorph(lm, sid, now), outcome |-> "load"]

\* a rule table in which scissors and paper have changed places as winners
RpsRuleSwapped(ka, kb) ==
    IF ka = "paper" /\ kb = "stone" THEN [who |-> "b", kind |-> "paper"]
    ELSE IF ka = "stone" /\ kb = "paper" THEN [who |-> "a", kind |-> "paper"]
    ELSE IF ka = "stone" /\ kb = "scissors" THEN [who |-> "b", kind |-> "stone"]
    ELSE IF ka = "scissors" /\ kb = "stone" THEN [who |-> "a", kind |-> "stone"]
    ELSE IF ka = "scissors" /\ kb = "paper" THEN [who |-> "a", kind |-> "paper"]
    ELSE IF ka = "paper" /\ kb = "scissors" THEN [who |-> "b", kind |-> "paper"]
    ELSE [who |-> "none", kind |-> "none"]

\* CollisionManager._apply_rps_rules(a, b, now): which sprite is asked to morph
\* ("a", "b" or "none") and into which kind
RpsRule(ka, kb) ==
    IF ka = "paper" /\ kb = "stone" THEN [who |-> "b", kind |-> "paper"]
    ELSE IF ka = "stone" /\ kb = "paper" THEN [who |-> "a", kind |-> "paper"]
    ELSE IF ka = "stone" /\ kb = "scissors" THEN [who |-> "b", kind |-> "stone"]
    ELSE IF ka = "scissors" /\ kb = "stone" THEN [who |-> "a", kind |-> "stone"]
    ELSE IF ka = "scissors" /\ kb = "paper" THEN [who |-> "b", kind |-> "scissors"]
    ELSE IF ka = "paper" /\ kb = "scissors" THEN [who |-> "a", kind |-> "scissors"]
    ELSE [who |-> "none", kind |-> "none"]

_apply_rps_rules(a, ia, b, ib, lm, now, cfg) ==
    LET rule == RpsRule(a.kind, b.kind)
    IN  IF rule.who = "b"
        THEN LET m == _try_morph(b, ib, lm, rule.kind, now, cfg)
             IN  [a |-> a, b |-> m.s, lm |-> m.lm, who |-> "b", outcome |-> m.outcome]
        ELSE IF rule.who = "a"
        THEN LET m == _try_morph(a, ia, lm, rule.kind, now, cfg)
             IN  [a |-> m.s, b |-> b, lm |-> m.lm, who |-> "a", outcome |-> m.outcome]
        ELSE [a |-> a, b |-> b, lm |-> lm, who |-> "none", outcome |-> "none"]

---------------------------------------------------------------------------
(* CollisionManager._resolve_list.  The resolver's working state `st`:      *)
(*   sp, lm    the sprites and the ledger                                  *)
(*   ax ay ar  the locals cached at the head of the a_i loop                *)
(*   hs, draws the headings the random draws of this pass give, and how     *)
(*             many were taken                                             *)
(*   ev        the log of resolved pairs                                   *)
(*   visited   resolve_all's set of cell-pair keys                          *)
(*   tested    the pairs put to the narrow-phase test                      *)
(*   handed    the (cell, c2) handed to _resolve_list, in order             *)

\* line 152 and the bookkeeping: apply the rules' result r, log the pair
PairDone(st, ia, ib, now, g, A1, B1, A2, B2, A3, B3, draws, r) ==
    [st EXCEPT !.sp = [st.sp EXCEPT ![ia] = r.a, ![ib] = r.b],
               !.lm = r.lm,
               !.ax = A1.cx, !.ay = A1.cy,
               !.draws = draws,
               !.ev = Append(st.ev,
                   [a |-> ia, b |-> ib, now |-> now, ax |-> st.ax, ay |-> st.ay,
                    A0 |-> st.sp[ia], B0 |-> st.sp[ib],
                    r_sum |-> g.r_sum, dist_sq |-> g.dist_sq, nx |-> g.nx, ny |-> g.ny,
                    A1 |-> A1, B1 |-> B1, A2 |-> A2, B2 |-> B2, A3 |-> A3, B3 |-> B3,
                    A |-> r.a, B |-> r.b,
                    who |-> r.who, outcome |-> r.outcome,
                    last |-> IF r.who = "a" THEN LastMorph(st.lm, ia)
                             ELSE IF r.who = "b" THEN LastMorph(st.lm, ib) ELSE 0,
                    lm0 |-> st.lm, lm |-> r.lm, exact |-> g.exact])]

\* line 152: the rules on the floored pair
PairRules(st, ia, ib, now, cfg, g, A1, B1, A2, B2, A3, B3, draws) ==
    PairDone(st, ia, ib, now, g, A1, B1, A2, B2, A3, B3, draws,
             _apply_rps_rules(A3, ia, B3, ib, st.lm, now, cfg))

\* lines 147-149: the speed floor on A, then on B (hA, hB: the headings their
\* random draws would give)
PairFloor(st, ia, ib, now, cfg, g, A1, B1, A2, B2, hA, drawsA, hB) ==
    PairRules(st, ia, ib, now, cfg,
              [g EXCEPT !.exact = @ /\ FloorExact(A2, cfg, hA) /\ FloorExact(B2, cfg, hB)],
              A1, B1, A2, B2,
              _enforce_min_speed(A2, cfg, hA), _enforce_min_speed(B2, cfg, hB),
              drawsA + (IF NeedsFloor(B2, cfg) /\ SpeedSq(B2) = 0 THEN 1 ELSE 0))

\* which headings the two draws of this pair take
PairDraws(st, ia, ib, now, cfg, g, A1, B1, A2, B2, drawsA) ==
    PairFloor(st, ia, ib, now, cfg, g, A1, B1, A2, B2,
              st.hs[(st.draws % Len(st.hs)) + 1], drawsA,
              st.hs[(drawsA % Len(st.hs)) + 1])

\* lines 142-145: the impulse along the normal
PairImpulse(st, ia, ib, now, cfg, g, A1, B1, da, db) ==
    PairDraws(st, ia, ib, now, cfg,
              [g EXCEPT !.exact = @ /\ Divides(NQ, da * g.nx) /\ Divides(NQ, da * g.ny)
                                    /\ Divides(NQ, db * g.nx) /\ Divides(NQ, db * g.ny)],
              A1, B1,
              [A1 EXCEPT !.vx = @ + RDiv(da * g.nx, NQ), !.vy = @ + RDiv(da * g.ny, NQ)],
              [B1 EXCEPT !.vx = @ + RDiv(db * g.nx, NQ), !.vy = @ + RDiv(db * g.ny, NQ)],
              st.draws + (IF A1.vx + RDiv(da * g.nx, NQ) = 0
                             /\ A1.vy + RDiv(da * g.ny, NQ) = 0
                             /\ 0 < cfg.min_speed THEN 1 ELSE 0))

\* an exchange in which each sprite keeps its own normal component
PairExchangeKept(st, ia, ib, now, cfg, g, A1, B1, va_n, vb_n) ==
    PairImpulse(st, ia, ib, now, cfg, g, A1, B1,
                RDiv(va_n * cfg.restitution, RQ) - va_n,
                RDiv(vb_n * cfg.restitution, RQ) - vb_n)

\* lines 139-140: the normal components after the exchange
PairExchange(st, ia, ib, now, cfg, g, A1, B1, va_n, vb_n) ==
    PairImpulse(st, ia, ib, now, cfg,
                [g EXCEPT !.exact = @ /\ Divides(RQ, vb_n * cfg.restitution)
                                      /\ Divides(RQ, va_n * cfg.restitution)],
                A1, B1,
                RDiv(vb_n * cfg.restitution, RQ) - va_n,
                RDiv(va_n * cfg.restitution, RQ) - vb_n)

\* lines 136-137: the normal components of the two velocities
PairVelocities(st, ia, ib, now, cfg, g, A1, B1) ==
    PairExchange(st, ia, ib, now, cfg,
                 [g EXCEPT !.exact = @ /\ Divides(NQ, A1.vx * g.nx + A1.vy * g.ny)
                                       /\ Divides(NQ, B1.vx * g.nx + B1.vy * g.ny)],
                 A1, B1,
                 RDiv(A1.vx * g.nx + A1.vy * g.ny, NQ),
                 RDiv(B1.vx * g.nx + B1.vy * g.ny, NQ))

\* lines 126-133: de-penetration; A moves from the cached (ax, ay)
PairSeparate(st, ia, ib, now, cfg, g) ==
    PairVelocities(st, ia, ib, now, cfg,
                   [g EXCEPT !.exact = @ /\ Divides(2 * NQ, g.overlap * g.nx)
                                         /\ Divides(2 * NQ, g.overlap * g.ny)],
                   set_center(st.sp[ia], st.ax - RDiv(g.overlap * g.nx, 2 * NQ),
                                         st.ay - RDiv(g.overlap * g.ny, 2 * NQ)),
                   set_center(st.sp[ib], st.sp[ib].cx + RDiv(g.overlap * g.nx, 2 * NQ),
                                         st.sp[ib].cy + RDiv(g.overlap * g.ny, 2 * NQ)))

\* lines 116-126: the normal and the overlap; dist is math.sqrt(dist_sq), or the
\* placeholder 1.0 when the centres coincide
PairNormal(st, ia, ib, now, cfg, dx, dy, r_sum, dist_sq, dist) ==
    PairSeparate(st, ia, ib, now, cfg,
                 [r_sum |-> r_sum, dist_sq |-> dist_sq, dist |-> dist,
                  nx |-> IF dist_sq > 0 THEN RDiv(dx * NQ, dist) ELSE NQ,
                  ny |-> IF dist_sq > 0 THEN RDiv(dy * NQ, dist) ELSE 0,
                  overlap |-> RDiv((r_sum - dist) * cfg.separation_bias, BQ),
                  exact |-> /\ dist_sq > 0 => dist * dist = dist_sq
                            /\ dist_sq > 0 => Divides(dist, dx * NQ) /\ Divides(dist, dy * NQ)
                            /\ Divides(BQ, (r_sum - dist) * cfg.separation_bias)])

\* a narrow-phase test that takes circles three radius sums apart as overlapping
PairTestWide(st, ia, ib, now, cfg, dx, dy, r_sum) ==
    IF dx * dx + dy * dy >= 9 * r_sum * r_sum THEN st
    ELSE PairNormal(st, ia, ib, now, cfg, dx, dy, r_sum, dx * dx + dy * dy,
                    IF dx * dx + dy * dy > 0 THEN Sqrt(dx * dx + dy * dy) ELSE Q)

\* lines 107-113: the narrow-phase test
PairTest(st, ia, ib, now, cfg, dx, dy, r_sum) ==
    IF dx * dx + dy * dy >= r_sum * r_sum THEN st
    ELSE PairNormal(st, ia, ib, now, cfg, dx, dy, r_sum, dx * dx + dy * dy,
                    IF dx * dx + dy * dy > 0 THEN Sqrt(dx * dx + dy * dy) ELSE Q)

\* lines 105-152 for the pair (A, B) = (sprites[ia], sprites[ib])
ResolvePair(st, ia, ib, now, cfg) ==
    PairTest([st EXCEPT !.tested = @ \cup {<<ia, ib>>}], ia, ib, now, cfg,
             st.sp[ib].cx - st.ax, st.sp[ib].cy - st.ay,
             st.ar + st.sp[ib].radius)

RECURSIVE InnerLoop(_, _, _, _, _, _)
InnerLoop(st, idxs, a_i, b_i, now, cfg) ==
    IF b_i > Len(idxs) THEN st
    ELSE InnerLoop(ResolvePair(st, idxs[a_i], idxs[b_i], now, cfg),
                   idxs, a_i, b_i + 1, now, cfg)

RECURSIVE OuterLoop(_, _, _, _, _)
OuterLoop(st, idxs, a_i, now, cfg) ==
    IF a_i > Len(idxs) THEN st
    ELSE LET A == st.sp[idxs[a_i]]
             st0 == [st EXCEPT !.ax = A.cx, !.ay = A.cy, !.ar = A.radius]
         IN  OuterLoop(InnerLoop(st0, idxs, a_i, a_i + 1, now, cfg),
                       idxs, a_i + 1, now, cfg)

\* CollisionManager._resolve_list(idxs, sprites, now)
_resolve_list(st, idxs, now, cfg) == OuterLoop(st, idxs, 1, now, cfg)

---------------------------------------------------------------------------
(* CollisionManager.resolve_all *)

Indices(sp) == 1..Len(sp)

\* (int(s.cx // cs), int(s.cy // cs)), for cs /= 0
CellOf(s, cs) == <<FloorDiv(s.cx, cs * Q), FloorDiv(s.cy, cs * Q)>>

\* the keys of `grid` in insertion order, after the first n sprites
RECURSIVE GridKeys(_, _, _)
GridKeys(sp, cs, n) ==
    IF n = 0 THEN <<>>
    ELSE LET prev == GridKeys(sp, cs, n - 1)
             c == CellOf(sp[n], cs)
         IN  IF \E k \in 1..Len(prev) : prev[k] = c THEN prev ELSE Append(prev, c)

\* grid[cell]: the indices bucketed into the cell, in index order
GridList(sp, cs, cell) ==
    SelectSeq([i \in Indices(sp) |-> i], LAMBDA i : CellOf(sp[i], cs) = cell)

neighbors ==
    << <<-1, -1>>, <<0, -1>>, <<1, -1>>,
       <<-1,  0>>, <<0,  0>>, <<1,  0>>,
       <<-1,  1>>, <<0,  1>>, <<1,  1>> >>

\* Python's order on tuples of two ints
CellLeq(c, d) == c[1] < d[1] \/ (c[1] = d[1] /\ c[2] <= d[2])

\* a key that keeps the direction of the visit
CellKeyDirected(c, d) == <<c, d>>

\* key = (min(cell, c2), max(cell, c2))
CellKey(c, d) == IF CellLeq(c, d) THEN <<c, d>> ELSE <<d, c>>

\* the loops over grid.items() and neighbors, from cell k and neighbour j on
RECURSIVE VisitCells(_, _, _, _, _, _, _)
VisitCells(st, keys, grid0, k, j, now, cfg) ==
    IF k > Len(keys) THEN st
    ELSE IF j > Len(neighbors) THEN VisitCells(st, keys, grid0, k + 1, 1, now, cfg)
    ELSE LET cell == keys[k]
             c2 == <<cell[1] + neighbors[j][1], cell[2] + neighbors[j][2]>>
             key == CellKey(cell, c2)
         IN  IF ~(\E m \in 1..Len(keys) : keys[m] = c2) \/ key \in st.visited
             THEN VisitCells(st, keys, grid0, k, j + 1, now, cfg)
             ELSE LET idxs == IF c2 = cell
                              THEN GridList(grid0, cfg.cell_size, cell)
                              ELSE GridList(grid0, cfg.cell_size, cell)
                                   \o GridList(grid0, cfg.cell_size, c2)
                      st1 == [st EXCEPT !.visited = @ \cup {key},
                                        !.handed = Append(@, <<cell, c2>>)]
                  IN  VisitCells(_resolve_list(st1, idxs, now, cfg),
                                 keys, grid0, k, j + 1, now, cfg)

\* resolve_all(sprites) at time `now`, the random draws giving the headings hs.
\* The grid is built once from the centres at entry (grid0).
resolve_all(sp, lm, now, cfg, hs) ==
    LET st0 == [sp |-> sp, lm |-> lm, ax |-> 0, ay |-> 0, ar |-> 0,
                hs |-> hs, draws |-> 0, ev |-> <<>>, visited |-> {},
                tested |-> {}, handed |-> <<>>]
    IN  VisitCells(st0, GridKeys(sp, cfg.cell_size, Len(sp)), sp, 1, 1, now, cfg)

---------------------------------------------------------------------------
(* main.py: spawning and the main loop *)

\* time.time() when the program starts, in ms
Epoch == 1000

\* clock.tick(120): the frame times the model draws, in ms (8 ms is a frame at
\* the 120 fps cap, 100 ms a slow frame)
FrameTimes == {8, 100}

\* RPS.__init__ via Scissors / Stone / Paper: the rect is centred on the spawn
\* point, the float centre is read back from the rect
NewSprite(kind, size, c, v) ==
    [kind |-> kind, size |-> size, radius |-> RadiusOf(size),
     rcx |-> c[1], rcy |-> c[2], cx |-> c[1] * Q, cy |-> c[2] * Q,
     vx |-> v[1], vy |-> v[2]]

\* spawn_sprites(n, arena) for n = 1: one sprite of each kind, in this order
SpawnKinds == <<"scissors", "stone", "paper">>

\* the spawns the model draws: for each, the three centres arena.random_point
\* returned (whole pixels) and the three initial velocities (1/VQ px/s), for
\* the scissors, the stone and the paper in this order
SpawnDraws ==
    { \* head-on pair along x; the paper runs into the bottom-right corner
      << <<404, 300>>, <<285, 300>>, <<644, 604>>,
         <<-1500, 0>>, <<1500, 0>>, <<1500, 1500>> >>,
      \* the stone crosses the scissors' path; the paper runs into the left wall
      << <<404, 300>>, <<300, 285>>, <<136, 500>>,
         <<-1500, 0>>, <<0, 1500>>, <<-1200, 0>> >>,
      \* all three meet
      << <<285, 300>>, <<404, 300>>, <<300, 404>>,
         <<1500, 0>>, <<-1500, 0>>, <<0, -1500>> >>,
      \* oblique pair; the paper runs into the top wall
      << <<285, 300>>, <<366, 368>>, <<500, 96>>,
         <<1500, 0>>, <<-1500, 0>>, <<0, -1500>> >>,
      \* stone and paper spawned on the same point with the same velocity
      << <<142, 300>>, <<300, 392>>, <<300, 392>>,
         <<-1200, 0>>, <<0, -1500>>, <<0, -1500>> >>,
      \* a pair next to the left wall; the paper runs into the top-right corner
      << <<136, 300>>, <<229, 290>>, <<644, 96>>,
         <<-1500, 0>>, <<-1000, 1000>>, <<1500, -1500>> >>,
      \* scissors and paper head on with unequal speeds
      << <<401, 300>>, <<600, 600>>, <<290, 290>>,
         <<-1200, 0>>, <<0, 1500>>, <<1000, 1000>> >>,
      \* all three meet, the paper moving away from the scissors
      << <<285, 300>>, <<404, 300>>, <<300, 374>>,
         <<1500, 0>>, <<-1500, 0>>, <<0, 1500>> >>,
      \* the paper meets the scissors one frame after the stone did
      << <<285, 300>>, <<404, 300>>, <<284, 419>>,
         <<1500, 0>>, <<-1500, 0>>, <<0, -1500>> >>,
      \* scissors and stone a radius sum apart, meeting within one short frame
      << <<390, 300>>, <<300, 300>>, <<644, 604>>,
         <<-1500, 0>>, <<1500, 0>>, <<1500, 1500>> >>,
      \* scissors takes the paper, then the stone takes both
      << <<291, 288>>, <<344, 395>>, <<398, 288>>,
         <<900, 1200>>, <<0, -1500>>, <<-900, 1200>> >> }

SpawnPad(size) == (size \div 2) + 6

InPaddedArena(c, pad) ==
    /\ arena.left + pad <= c[1] /\ c[1] <= arena.right - pad
    /\ arena.top + pad <= c[2] /\ c[2] <= arena.bottom - pad

InSpeedRange(v) ==
    /\ v[1] * v[1] + v[2] * v[2] >= (120 * VQ) * (120 * VQ)
    /\ v[1] * v[1] + v[2] * v[2] <= (220 * VQ) * (220 * VQ)

\* the configurations a CollisionManager is constructed with
Configs(sp) ==
    { make_collision_manager_for(sp),
      CollisionManager(FALSE, DefaultCellSize, DefaultRestitution,
                       DefaultSeparationBias, DefaultMinSpeed, DefaultMorphCooldown),
      CollisionManager(FALSE, 120, 500, 100, DefaultMinSpeed, DefaultMorphCooldown),
      CollisionManager(TRUE, 0, DefaultRestitution, 102, DefaultMinSpeed,
                       DefaultMorphCooldown),
      CollisionManager(TRUE, 120, DefaultRestitution, 102, -600,
                       DefaultMorphCooldown) }

\* Scoreboard.__init__ / Scoreboard.reset: no wins
Scoreboard == [k \in Kinds |-> 0]

\* Scoreboard.add_win(kind)
add_win(sb, kind) == IF kind \in DOMAIN sb THEN [sb EXCEPT ![kind] = @ + 1] ELSE sb

\* HUD.update_counts(sprites): kind -> number of sprites of the kind
update_counts(sp) == [k \in Kinds |-> Cardinality({i \in Indices(sp) : sp[i].kind = k})]

\* alive = [k for k, v in counts.items() if v > 0]
Alive(counts) == {k \in Kinds : counts[k] > 0}

Init ==
    /\ \E d \in SpawnDraws :
          LET c == <<d[1], d[2], d[3]>>
              v == <<d[4], d[5], d[6]>>
          IN  /\ \A i \in 1..3 :
                    /\ InPaddedArena(c[i], SpawnPad(icon_size_for(1)))
                    /\ InSpeedRange(v[i])
              /\ sprites = [i \in 1..3 |->
                               NewSprite(SpawnKinds[i], icon_size_for(1), c[i], v[i])]
    /\ mgr = NoMgr
    /\ last_morph = <<>>
    /\ clock = Epoch
    /\ phase = "construct"
    /\ ticks = 0
    /\ dt = 0
    /\ before = sprites
    /\ events = <<>>
    /\ changes = [i \in 1..3 |-> <<>>]
    /\ round_active = TRUE
    /\ scoreboard = Scoreboard
    /\ awarded = <<>>
    /\ restarts = 0
    /\ spawned_at = Epoch
    /\ tested = {}
    /\ handed = <<>>
    /\ retired = <<>>

\* collisions = CollisionManager(...): __init__ checks nothing
Construct ==
    /\ phase = "construct"
    /\ \E cfg \in Configs(sprites) : mgr' = cfg
    /\ last_morph' = <<>>
    /\ phase' = "update"
    /\ UNCHANGED <<sprites, clock, ticks, dt, before, events, changes, round_active,
                   scoreboard, awarded, restarts, spawned_at, tested, handed, retired>>

\* for s in sprites: s.update(dt)
UpdateAll ==
    /\ phase = "update"
    /\ ticks < MaxTicks
    /\ \E t \in FrameTimes :
          /\ dt' = t
          /\ sprites' = [i \in Indices(sprites) |-> update(sprites[i], t)]
          /\ clock' = clock + t
    /\ before' = sprites
    /\ ticks' = ticks + 1
    /\ phase' = "resolve"
    /\ UNCHANGED <<mgr, last_morph, events, changes, round_active, scoreboard,
                   awarded, restarts, spawned_at, tested, handed, retired>>

\* the indices whose kind the pair step of event e changed
Morphed(e) ==
    (IF e.A.kind /= e.A0.kind THEN {e.a} ELSE {})
    \cup (IF e.B.kind /= e.B0.kind THEN {e.b} ELSE {})

RECURSIVE ChangeTimes(_, _, _)
ChangeTimes(ev, i, n) ==
    IF n = 0 THEN <<>>
    ELSE IF i \in Morphed(ev[n])
    THEN Append(ChangeTimes(ev, i, n - 1), ev[n].now)
    ELSE ChangeTimes(ev, i, n - 1)

HeadingSeqs == {<<h1, h2>> : h1 \in Headings, h2 \in Headings}

DefaultHeadings == <<<<1000, 0>>, <<1000, 0>>>>

\* collisions.resolve_all(sprites): s.cx // 0 raises ZeroDivisionError in the
\* bucketing loop, before anything is changed
ResolveCrash ==
    /\ phase = "resolve"
    /\ mgr.cell_size = 0
    /\ phase' = "crashed"
    /\ UNCHANGED <<sprites, mgr, last_morph, clock, ticks, dt, before, events, changes,
                   round_active, scoreboard, awarded, restarts, spawned_at, tested,
                   handed, retired>>

\* a winner detection that does not look at the latch
RecordWinnerUnlatched(alive) ==
    IF Cardinality(alive) = 1
    THEN LET kind == CHOOSE k \in alive : TRUE
         IN  /\ scoreboard' = add_win(scoreboard, kind)
             /\ awarded' = Append(awarded, kind)
             /\ round_active' = FALSE
    ELSE UNCHANGED <<round_active, scoreboard, awarded>>

\* main.py 163-170: the winner is recorded once per round
RecordWinner(alive) ==
    IF round_active /\ Cardinality(alive) = 1
    THEN LET kind == CHOOSE k \in alive : TRUE
         IN  /\ scoreboard' = add_win(scoreboard, kind)
             /\ awarded' = Append(awarded, kind)
             /\ round_active' = FALSE
    ELSE UNCHANGED <<round_active, scoreboard, awarded>>

\* what a loop iteration leaves behind after its resolve_all pass
AfterPass(st) ==
    /\ sprites' = st.sp
    /\ last_morph' = st.lm
    /\ events' = st.ev
    /\ changes' = [i \in Indices(sprites) |->
                     changes[i] \o ChangeTimes(st.ev, i, Len(st.ev))]
    /\ tested' = st.tested
    /\ handed' = st.handed
    /\ RecordWinner(Alive(update_counts(st.sp)))

ResolveAll ==
    /\ phase = "resolve"
    /\ mgr.cell_size /= 0
    /\ LET st == resolve_all(sprites, last_morph, clock, mgr, DefaultHeadings)
       IN  IF st.draws = 0
           THEN AfterPass(st)
           ELSE \E hs \in HeadingSeqs :
                   AfterPass(resolve_all(sprites, last_morph, clock, mgr, hs))
    /\ phase' = "update"
    /\ UNCHANGED <<mgr, clock, ticks, dt, before, restarts, spawned_at, retired>>

\* a restart that hands the old manager's ledger on to the new manager
RespawnKeepingLedger(d) ==
    /\ sprites' = [i \in 1..3 |->
                     NewSprite(SpawnKinds[i], icon_size_for(1), d[i], d[i + 3])]
    /\ mgr' = make_collision_manager_for(sprites')
    /\ last_morph' = last_morph
    /\ retired' = last_morph
    /\ round_active' = TRUE
    /\ awarded' = <<>>
    /\ spawned_at' = clock
    /\ before' = sprites'
    /\ events' = <<>>
    /\ changes' = [i \in 1..3 |-> <<>>]
    /\ tested' = {}
    /\ handed' = <<>>
    /\ restarts' = restarts + 1
    /\ UNCHANGED <<clock, phase, ticks, dt>>

\* spawn_sprites(n, arena) for the draw d, then make_collision_manager_for:
\* what both restarts do to the population, the manager and the latch.  The
\* new manager starts with an empty ledger (CollisionManager.__init__); the
\* new sprites take the places, and may take the identities, of the old ones.
Respawn(d) ==
    /\ sprites' = [i \in 1..3 |->
                     NewSprite(SpawnKinds[i], icon_size_for(1), d[i], d[i + 3])]
    /\ mgr' = make_collision_manager_for(sprites')
    /\ last_morph' = <<>>
    /\ retired' = last_morph
    /\ round_active' = TRUE
    /\ awarded' = <<>>
    /\ spawned_at' = clock
    /\ before' = sprites'
    /\ events' = <<>>
    /\ changes' = [i \in 1..3 |-> <<>>]
    /\ tested' = {}
    /\ handed' = <<>>
    /\ restarts' = restarts + 1
    /\ UNCHANGED <<clock, phase, ticks, dt>>

\* restart_simulation(): Enter or the Restart button, taken in the event loop
\* at the head of a frame
restart_simulation ==
    /\ phase = "update"
    /\ mgr.constructed
    /\ restarts < MaxRestarts
    /\ \E d \in SpawnDraws : Respawn(d)
    /\ UNCHANGED scoreboard

\* restart_to_start(): the Return to Start button (the start screen gives n = 1)
restart_to_start ==
    /\ phase = "update"
    /\ mgr.constructed
    /\ restarts < MaxRestarts
    /\ \E d \in SpawnDraws : Respawn(d)
    /\ scoreboard' = Scoreboard

Next ==
    \/ Construct
    \/ UpdateAll
    \/ ResolveCrash
    \/ ResolveAll
    \/ restart_simulation
    \/ restart_to_start

Spec == Init /\ [][Next]_vars

---------------------------------------------------------------------------
(* The main loop without a bound on the number of frames                   *)
(*                                                                         *)
(* spawn_sprites may place the three sprites anywhere in the padded arena  *)
(* with any heading; here they move on three parallel vertical tracks.     *)
(* The clock is read only through now - last of a ledger entry, so it is   *)
(* kept while no entry is still within the cooldown, and the frame counter *)
(* saturates: both keep the reachable states finite without changing what  *)
(* the frames do to the sprites.                                           *)

Tracks ==
    << <<150, 300>>, <<350, 300>>, <<550, 300>>,
       <<0, 1500>>, <<0, 1500>>, <<0, 1500>> >>

\* clock.tick(120) / 1000.0 of a slow and of a slower frame, in ms
LiveFrameTimes == {50, 100}

\* whether every entry of the ledger is older than the cooldown at time now
Expired(lm, now, cfg) == \A sid \in DOMAIN lm : (now - lm[sid]) >= cfg.morph_cooldown

LiveInit ==
    /\ \A i \in 1..3 :
          /\ InPaddedArena(Tracks[i], SpawnPad(icon_size_for(1)))
          /\ InSpeedRange(Tracks[i + 3])
    /\ sprites = [i \in 1..3 |->
                     NewSprite(SpawnKinds[i], icon_size_for(1), Tracks[i], Tracks[i + 3])]
    /\ mgr = make_collision_manager_for(sprites)
    /\ last_morph = <<>>
    /\ clock = Epoch
    /\ phase = "update"
    /\ ticks = 0
    /\ dt = 0
    /\ before = sprites
    /\ events = <<>>
    /\ changes = [i \in 1..3 |-> <<>>]
    /\ round_active = TRUE
    /\ scoreboard = Scoreboard
    /\ awarded = <<>>
    /\ restarts = 0
    /\ spawned_at = Epoch
    /\ tested = {}
    /\ handed = <<>>
    /\ retired = <<>>

\* for s in sprites: s.update(dt), frame after frame
LiveUpdateAll ==
    /\ phase = "update"
    /\ \E t \in LiveFrameTimes :
          /\ dt' = t
          /\ sprites' = [i \in Indices(sprites) |-> update(sprites[i], t)]
          /\ clock' = IF Expired(last_morph, clock, mgr) THEN clock ELSE clock + t
    /\ before' = sprites
    /\ ticks' = Min2(ticks + 1, MaxTicks)
    /\ phase' = "resolve"
    /\ UNCHANGED <<mgr, last_morph, events, changes, round_active, scoreboard,
                   awarded, restarts, spawned_at, tested, handed, retired>>

LiveNext == LiveUpdateAll \/ ResolveAll

\* the loop body moves on: from the updates to the pass, from the pass to the
\* next frame's updates
Advance == phase' = IF phase = "update" THEN "resolve" ELSE "update"

\* `while True`: the loop never stops by itself, a frame follows a frame
LiveSpec == LiveInit /\ [][LiveNext]_vars /\ WF_phase(Advance)

---------------------------------------------------------------------------
(* Vocabulary of the properties *)

\* the pairs the last resolve_all pass resolved
Resolved == {events[k] : k \in 1..Len(events)}

\* (winner, loser) of the dominance table
Beats(w, l) ==
    <<w, l>> \in {<<"paper", "stone">>, <<"stone", "scissors">>, <<"scissors", "paper">>}

\* whether sprite i was on cooldown when the pair of event e was resolved
OnCooldown(e, i) == (e.now - LastMorph(e.lm0, i)) < mgr.morph_cooldown

\* the sprites whose kind the pair step changed, with their state just before
\* the rules ran (after the speed floor) and just after
Transmuted(e) ==
    (IF e.A.kind /= e.A3.kind THEN {[i |-> e.a, pre |-> e.A3, post |-> e.A]} ELSE {})
    \cup (IF e.B.kind /= e.B3.kind THEN {[i |-> e.b, pre |-> e.B3, post |-> e.B]} ELSE {})

DistSq(s, t) == (t.cx - s.cx) * (t.cx - s.cx) + (t.cy - s.cy) * (t.cy - s.cy)

\* components of a velocity along and across the normal of event e (times NQ)
AlongNormal(e, s) == s.vx * e.nx + s.vy * e.ny
AcrossNormal(e, s) == s.vy * e.nx - s.vx * e.ny

---------------------------------------------------------------------------
(* C1 *)

\* C1: for every pair the resolver resolved, in either order: when one kind
\* beats the other, the winner keeps its kind and the loser, unless it was on
\* cooldown, ends with the winner's kind; a pair of equal kinds keeps its kinds.
C1_CyclicDominance ==
    \A e \in Resolved :
        LET ka == e.A0.kind
            kb == e.B0.kind
        IN  /\ Beats(ka, kb) =>
                  /\ e.A.kind = ka
                  /\ ~OnCooldown(e, e.b) => e.B.kind = ka
            /\ Beats(kb, ka) =>
                  /\ e.B.kind = kb
                  /\ ~OnCooldown(e, e.a) => e.A.kind = kb
            /\ ka = kb => e.A.kind = ka /\ e.B.kind = kb

\* one pass in which a first-argument winner and a second-argument winner both
\* converted their loser
C1_Witness ==
    /\ \E e \in Resolved :
          Beats(e.A0.kind, e.B0.kind) /\ ~OnCooldown(e, e.b) /\ e.B.kind = e.A0.kind
    /\ \E e \in Resolved :
          Beats(e.B0.kind, e.A0.kind) /\ ~OnCooldown(e, e.a) /\ e.A.kind = e.B0.kind

---------------------------------------------------------------------------
(* C2 *)

\* C2: two kind changes of one entity are never less than morph_cooldown apart,
\* whether the collisions fall in one pass or in later passes, and a gated
\* transmutation leaves the kinds and the ledger as they were.
C2_Cooldown ==
    /\ mgr.constructed /\ mgr.morph_cooldown > 0 =>
          \A i \in DOMAIN changes :
              \A k \in 1..(Len(changes[i]) - 1) :
                  changes[i][k + 1] - changes[i][k] >= mgr.morph_cooldown
    /\ \A e \in Resolved :
          (e.who /= "none" /\ OnCooldown(e, IF e.who = "a" THEN e.a ELSE e.b)) =>
              /\ e.lm = e.lm0
              /\ e.A.kind = e.A0.kind /\ e.B.kind = e.B0.kind

\* a loser gated in the pass in which it had just changed kind
C2_Witness ==
    \E e1 \in Resolved, e2 \in Resolved :
        /\ e1.outcome = "load" /\ e1.who = "a"
        /\ e2.who = "a" /\ e2.a = e1.a /\ e2.outcome = "cooldown"
        /\ e2.last = e1.now /\ e2.now = e1.now

---------------------------------------------------------------------------
(* C3 *)

\* C3: a transmutation changes only the kind: the centre, the box, the radius
\* and the velocity of the transmuted entity are what they were just before it.
C3_MorphKeepsGeometry ==
    \A e \in Resolved :
        e.exact =>
            \A m \in Transmuted(e) :
                /\ m.post.cx = m.pre.cx /\ m.post.cy = m.pre.cy
                /\ m.post.size = m.pre.size /\ m.post.radius = m.pre.radius
                /\ m.post.vx = m.pre.vx /\ m.post.vy = m.pre.vy

---------------------------------------------------------------------------
(* C4 *)

\* C4: a manager constructed with an asset cache transmutes through the cache
\* (morph_to_cached) and never through the load-by-path fallback (morph_to).
C4_CacheWhenSupplied ==
    \A e \in Resolved :
        (mgr.assets /\ e.outcome \in {"cached", "load"}) => e.outcome = "cached"

---------------------------------------------------------------------------
(* C5 *)

\* C5: with separation_bias >= 1, once the resolver is done with an overlapping
\* pair (transmutation included) the centres are at least the sum of the radii
\* apart, coincident centres included.
C5_Separated ==
    \A e \in Resolved :
        (e.exact /\ mgr.separation_bias >= BQ) =>
            DistSq(e.A, e.B) >= e.r_sum * e.r_sum

---------------------------------------------------------------------------
(* C6 *)

\* the velocity of `after` keeps the component of `own` across the normal of e
\* and has the component of `other` along it
Exchanged(e, after, own, other) ==
    /\ AcrossNormal(e, after) = AcrossNormal(e, own)
    /\ AlongNormal(e, after) = AlongNormal(e, other)

\* C6 as stated: with restitution 1.0, after the resolution of a pair each
\* entity has its own tangential component and the other's normal component,
\* whatever the incoming velocities.
C6_ElasticExchange ==
    \A e \in Resolved :
        (e.exact /\ mgr.restitution = RQ) =>
            /\ Exchanged(e, e.A, e.A0, e.B0)
            /\ Exchanged(e, e.B, e.B0, e.A0)

\* C6, amended: with restitution 1.0, after the resolution of a pair every
\* entity whose speed after the exchange is not below min_speed has its own
\* tangential component and the other's normal component.
C6_ElasticExchangeAboveFloor ==
    \A e \in Resolved :
        (e.exact /\ mgr.restitution = RQ) =>
            /\ ~NeedsFloor(e.A2, mgr) => Exchanged(e, e.A, e.A0, e.B0)
            /\ ~NeedsFloor(e.B2, mgr) => Exchanged(e, e.B, e.B0, e.A0)

\* an oblique elastic pair, both above the floor, with tangential components
\* and different normal components
C6_Witness ==
    \E e \in Resolved :
        /\ e.exact /\ mgr.restitution = RQ
        /\ e.nx /= 0 /\ e.ny /= 0
        /\ ~NeedsFloor(e.A2, mgr) /\ ~NeedsFloor(e.B2, mgr)
        /\ AcrossNormal(e, e.A0) /= 0 /\ AcrossNormal(e, e.B0) /= 0
        /\ AlongNormal(e, e.A0) /= AlongNormal(e, e.B0)
        /\ Exchanged(e, e.A, e.A0, e.B0)

---------------------------------------------------------------------------
(* C7 *)

\* the pairs of the last pass sprite i was part of, by position in the log
PairsOf(i) == {k \in 1..Len(events) : events[k].a = i \/ events[k].b = i}

LastPairOf(i) == events[CHOOSE k \in PairsOf(i) : \A j \in PairsOf(i) : j <= k]

\* whether w has the direction of the nonzero velocity v
SameDirection(v, w) ==
    /\ v.vx * w.vy - v.vy * w.vx = 0
    /\ v.vx * w.vx + v.vy * w.vy > 0

\* the floor kept the direction of a velocity that was below min_speed, not zero
FloorKeepsDirection(cfg, pre, post) ==
    (NeedsFloor(pre, cfg) /\ SpeedSq(pre) /= 0) => SameDirection(pre, post)

\* C7: after a pass every entity that was in a resolved pair has speed >=
\* min_speed; a speed below min_speed but not zero is raised without turning
\* the velocity; and the update that follows does not change the speed.
C7_SpeedFloor ==
    /\ \A i \in DOMAIN sprites :
          (PairsOf(i) /= {} /\ LastPairOf(i).exact /\ mgr.min_speed >= 0) =>
              SpeedSq(sprites[i]) >= mgr.min_speed * mgr.min_speed
    /\ \A e \in Resolved :
          e.exact => /\ FloorKeepsDirection(mgr, e.A2, e.A3)
                     /\ FloorKeepsDirection(mgr, e.B2, e.B3)
    /\ phase = "resolve" =>
          \A i \in DOMAIN sprites : SpeedSq(sprites[i]) = SpeedSq(before[i])

\* a sprite raised to min_speed by the floor, then turned by a wall in the
\* update that followed
C7_Witness ==
    /\ phase = "resolve"
    /\ \E e \in Resolved :
          /\ e.exact /\ NeedsFloor(e.A2, mgr) /\ SpeedSq(e.A2) /= 0
          /\ e.A3.vx /= e.A2.vx
          /\ before[e.a].vx = e.A3.vx
          /\ sprites[e.a].vx = -before[e.a].vx
          /\ SpeedSq(sprites[e.a]) = mgr.min_speed * mgr.min_speed

---------------------------------------------------------------------------
(* C8 *)

Inside(s) ==
    /\ arena.left <= RectLeft(s) /\ RectRight(s) <= arena.right
    /\ arena.top <= RectTop(s) /\ RectBottom(s) <= arena.bottom

\* C8: after every update(dt) the entity's rect lies inside the arena on both
\* axes, wherever the entity was before the call.
C8_InsideAfterUpdate ==
    phase = "resolve" => \A i \in DOMAIN sprites : Inside(sprites[i])

\* an update of a sprite the previous pass had pushed past the left wall
C8_Witness ==
    /\ phase = "resolve"
    /\ \E i \in DOMAIN sprites :
          RectLeft(before[i]) < arena.left /\ Inside(sprites[i])

---------------------------------------------------------------------------
(* C9 *)

\* update(dt) on one axis: `lo`, `hi` the rect's edges after the integration,
\* `lo2`, `hi2` after the bounce, `v`, `v2` the velocity component before and
\* after, `wlo`, `whi` the arena's edges
BouncedOnCrossing(lo, hi, lo2, hi2, v, v2, wlo, whi) ==
    /\ lo < wlo => lo2 = wlo /\ v2 = -v
    /\ hi > whi => hi2 = whi /\ v2 = -v
    /\ (lo >= wlo /\ hi <= whi) => v2 = v

\* C9: an update that carries the rect's edge across an arena edge clamps the
\* edge and negates the velocity component of that axis; the axes are handled
\* independently; an axis whose edge did not cross keeps its component.
C9_WallBounce ==
    phase = "resolve" =>
        \A i \in DOMAIN sprites :
            LET moved == Integrate(before[i], dt)
            IN  /\ BouncedOnCrossing(RectLeft(moved), RectRight(moved),
                                     RectLeft(sprites[i]), RectRight(sprites[i]),
                                     before[i].vx, sprites[i].vx,
                                     arena.left, arena.right)
                /\ BouncedOnCrossing(RectTop(moved), RectBottom(moved),
                                     RectTop(sprites[i]), RectBottom(sprites[i]),
                                     before[i].vy, sprites[i].vy,
                                     arena.top, arena.bottom)

---------------------------------------------------------------------------
(* C10 *)

WellFormed(cfg) == cfg.cell_size > 0 /\ cfg.min_speed >= 0

\* C10: no CollisionManager with cell_size <= 0 or a negative min_speed is
\* ever handed to resolve_all: its construction fails.
C10_MalformedRejected ==
    phase = "resolve" => WellFormed(mgr)

\* the kinds with a nonzero count
AliveKinds == Alive(update_counts(sprites))

\* C11. Termination: starting from a population that contains all three
\* kinds, repeated application of the tick (update of every sprite, then
\* resolve_all) eventually reaches a state in which exactly one kind has a
\* nonzero count.
C11_Termination == <>(Cardinality(AliveKinds) = 1)

\* C11 (what holds instead). In a population whose sprites never overlap, all
\* three kinds stay alive at every frame, however many frames are run, and no
\* win is ever recorded.
C11_KindsPersist ==
    /\ Cardinality(AliveKinds) = 3
    /\ round_active
    /\ awarded = <<>>

\* the frames have run past the bound, every sprite has turned at the bottom
\* wall and is on its way back, and the three kinds are still alive
C11_Witness ==
    /\ phase = "update"
    /\ ticks = MaxTicks
    /\ \A i \in Indices(sprites) : sprites[i].vy < 0 /\ RectTop(sprites[i]) > arena.top
    /\ tested /= {}
    /\ Cardinality(AliveKinds) = 3

\* the sprites at the start of the last resolve_all pass: main.py updates
\* every sprite, then calls resolve_all
PrePass == [i \in Indices(before) |-> update(before[i], dt)]

\* the state right after a pass: the last step was ResolveAll
AfterResolveAll == phase = "update" /\ handed /= <<>>

\* whether the circles of s and t overlap (the narrow-phase condition)
Overlapping(s, t) ==
    /\ Abs(t.cx - s.cx) < s.radius + t.radius
    /\ Abs(t.cy - s.cy) < s.radius + t.radius
    /\ (t.cx - s.cx) * (t.cx - s.cx) + (t.cy - s.cy) * (t.cy - s.cy)
          < (s.radius + t.radius) * (s.radius + t.radius)

\* whether the cells c and d are equal or adjacent (3x3 neighbourhood)
Adjacent(c, d) == Abs(c[1] - d[1]) <= 1 /\ Abs(c[2] - d[2]) <= 1

\* whether the manager has the cell size make_collision_manager_for chooses
SizedForIcons == mgr.constructed /\ mgr.cell_size = make_collision_manager_for(sprites).cell_size

\* C12. Broad-phase completeness: with the cell size chosen by
\* make_collision_manager_for (max(32, 1.2 x icon width), radius = 0.45 x icon
\* width) a diameter is never longer than a cell, for every icon size, and
\* every pair of sprites whose circles overlap at the start of resolve_all
\* lies in the same or in adjacent grid cells and is put to the narrow-phase
\* test at least once in that pass.
C12_BroadPhaseComplete ==
    /\ \A n \in 1..MaxIcons :
          LET one == <<NewSprite("stone", icon_size_for(n), <<0, 0>>, <<0, 0>>)>>
          IN  2 * one[1].radius <= Q * make_collision_manager_for(one).cell_size
    /\ (AfterResolveAll /\ SizedForIcons) =>
          \A i, j \in Indices(PrePass) :
              (i < j /\ Overlapping(PrePass[i], PrePass[j])) =>
                 /\ Adjacent(CellOf(PrePass[i], mgr.cell_size),
                             CellOf(PrePass[j], mgr.cell_size))
                 /\ <<i, j>> \in tested \/ <<j, i>> \in tested

\* a pass of a manager sized for the icons met two overlapping pairs, one in
\* two different cells
C12_Witness ==
    /\ AfterResolveAll
    /\ SizedForIcons
    /\ \E i, j, k \in Indices(PrePass) :
          /\ i < j /\ k /= i /\ k /= j
          /\ Overlapping(PrePass[i], PrePass[j])
          /\ Overlapping(PrePass[j], PrePass[k]) \/ Overlapping(PrePass[i], PrePass[k])
          /\ CellOf(PrePass[i], mgr.cell_size) /= CellOf(PrePass[j], mgr.cell_size)
          /\ <<i, j>> \in tested \/ <<j, i>> \in tested

\* the sprite a pair step asked to morph
Loser(e) == IF e.who = "a" THEN e.a ELSE e.b

\* the times in a sequence of times
TimesOf(ts) == {ts[k] : k \in 1..Len(ts)}

\* C13. After any restart the cooldown ledger that gates the new population
\* holds no entry recorded for a sprite of an earlier population: every entry
\* was written after the latest spawn, for a kind change of the sprite of the
\* current population it is filed under, and whenever a transmutation is
\* blocked, the blocking timestamp is one of that sprite's own kind changes;
\* so the first qualifying collision of a new sprite is not blocked, even
\* when it has the identity of an old sprite.
C13_FreshLedger ==
    /\ \A sid \in DOMAIN last_morph :
          /\ sid \in Indices(sprites)
          /\ last_morph[sid] > spawned_at
          /\ last_morph[sid] \in TimesOf(changes[sid])
    /\ \A e \in Resolved :
          e.outcome = "cooldown" =>
              /\ e.last > spawned_at
              /\ e.last \in TimesOf(changes[Loser(e)])

\* after a restart a new sprite changes kind although the sprite that had its
\* identity in the earlier population changed kind less than a cooldown ago
C13_Witness ==
    /\ restarts > 0
    /\ \E e \in Resolved :
          /\ e.who /= "none"
          /\ e.outcome = "load"
          /\ Loser(e) \in DOMAIN retired
          /\ (e.now - retired[Loser(e)]) < mgr.morph_cooldown
          /\ changes[Loser(e)] = <<e.now>>

\* a step that is a resolve_all pass with the winner detection after it
PassStep == phase = "resolve" /\ phase' = "update"

\* the kinds alive after the step
AliveKindsAfter == Alive(update_counts(sprites'))

\* what a round's latch and record look like in every state: at most one win
\* since the spawn, the latch is off exactly when a win was recorded, the
\* recorded kind is the one alive, and while the latch is on more than one
\* kind is alive
C14_RoundRecord ==
    /\ Len(awarded) <= 1
    /\ round_active <=> awarded = <<>>
    /\ awarded /= <<>> => AliveKinds = {awarded[1]}
    /\ round_active => Cardinality(AliveKinds) >= 2

\* what a step does to the tallies and the latch
C14_RoundStep ==
    /\ (PassStep /\ round_active /\ Cardinality(AliveKindsAfter) = 1) =>
          \E k \in Kinds :
              /\ AliveKindsAfter = {k}
              /\ scoreboard' = [scoreboard EXCEPT ![k] = @ + 1]
              /\ awarded' = <<k>>
              /\ ~round_active'
    /\ (PassStep /\ ~(round_active /\ Cardinality(AliveKindsAfter) = 1)) =>
          UNCHANGED <<scoreboard, awarded, round_active>>
    /\ (~PassStep /\ restarts' = restarts) =>
          UNCHANGED <<scoreboard, awarded, round_active>>
    /\ restarts' /= restarts => round_active' /\ awarded' = <<>>
    /\ restart_simulation => scoreboard' = scoreboard
    /\ restart_to_start => scoreboard' = [k \in Kinds |-> 0]

\* C14. A round's win is recorded exactly once: between two consecutive
\* spawns the scoreboard is incremented at most once, by the pass of the first
\* frame after which exactly one kind is alive and for that kind, and not
\* again by later frames of the round; restart_simulation re-arms the latch
\* and keeps the tallies, restart_to_start re-arms it and resets the tallies.
C14_WinOnce == []C14_RoundRecord /\ [][C14_RoundStep]_vars

\* a round won in an earlier frame has gone through a later pass, and the
\* winner's tally still stands at one
C14_Witness ==
    /\ AfterResolveAll
    /\ ~round_active
    /\ Len(awarded) = 1
    /\ scoreboard = [k \in Kinds |-> IF k = awarded[1] THEN 1 ELSE 0]
    /\ \E i \in Indices(sprites) : changes[i] /= <<>>
    /\ \A i \in Indices(sprites) : \A t \in TimesOf(changes[i]) : t < clock

\* the cells occupied at the start of the last pass
Occupied == {CellOf(PrePass[i], mgr.cell_size) : i \in Indices(PrePass)}

\* the unordered pair of cells of the k-th call of _resolve_list
HandedPair(k) == {handed[k][1], handed[k][2]}

\* C15. In one resolve_all pass every unordered pair of occupied cells that
\* are equal or adjacent (3x3 neighbourhood) is handed to _resolve_list exactly
\* once, never from both directions, and no pair of non-adjacent cells (and
\* no unoccupied cell) is ever handed to it.
C15_CellPairsOnce ==
    AfterResolveAll =>
        /\ \A k \in 1..Len(handed) :
              /\ handed[k][1] \in Occupied
              /\ handed[k][2] \in Occupied
              /\ Adjacent(handed[k][1], handed[k][2])
        /\ \A k, m \in 1..Len(handed) : k /= m => HandedPair(k) /= HandedPair(m)
        /\ \A c, d \in Occupied :
              Adjacent(c, d) => \E k \in 1..Len(handed) : HandedPair(k) = {c, d}

\* a pass over three occupied cells, two of them adjacent and handed over
\* together, two of them not adjacent
C15_Witness ==
    /\ AfterResolveAll
    /\ Cardinality(Occupied) = 3
    /\ \E k \in 1..Len(handed) : handed[k][1] /= handed[k][2]
    /\ \E c, d \in Occupied : ~Adjacent(c, d)

\* how many sprites of kind k there are now, and after the step
Count(k) == update_counts(sprites)[k]
CountAfter(k) == update_counts(sprites')[k]

\* the population in every state: three sprites (n = 1), each of one of the
\* three kinds
C16_Population ==
    /\ Len(sprites) = 3 * 1
    /\ \A i \in Indices(sprites) : sprites[i].kind \in {"scissors", "stone", "paper"}

\* what a step of a round does to the kinds
C16_RoundStep ==
    restarts' = restarts =>
        /\ Len(sprites') = Len(sprites)
        /\ \A k \in Kinds : Count(k) = 0 => CountAfter(k) = 0
        /\ Cardinality(AliveKinds) = 1 =>
              \A i \in Indices(sprites) : sprites'[i].kind = sprites[i].kind

\* C16. Kind extinction is permanent and the population is conserved: across
\* the frames of a round the number of sprites stays 3N, every kind stays one
\* of scissors, stone and paper, a kind whose count has reached zero has a
\* zero count ever after, and once exactly one kind remains no sprite changes
\* kind any more.
C16_ExtinctionPermanent == []C16_Population /\ [][C16_RoundStep]_vars

\* a round in which the paper died out in one frame and the scissors in a
\* later one, and a pass after that met an overlapping pair of the one kind left
C16_Witness ==
    /\ AfterResolveAll
    /\ restarts = 0
    /\ Cardinality(AliveKinds) = 1
    /\ \E i, j \in Indices(sprites) :
          /\ changes[i] /= <<>> /\ changes[j] /= <<>>
          /\ changes[i][1] < changes[j][Len(changes[j])]
    /\ \E e \in Resolved : e.now = clock /\ e.who = "none" /\ e.A0.kind = e.B0.kind
    /\ \A i \in Indices(sprites) : \A t \in TimesOf(changes[i]) : t < clock

\* C17. Whenever update(dt) negates a velocity component at a wall, the
\* resulting component points away from that wall into the arena (vx >= 0 after
\* a left-wall bounce, vx <= 0 after a right-wall bounce, likewise for vy): a
\* sprite resting on or pushed past a wall while already moving inward is not
\* turned back toward the wall.
C17_BounceIntoArena ==
    phase = "resolve" =>
        \A i \in Indices(sprites) :
            LET m == Integrate(before[i], dt)
            IN  /\ RectLeft(m) <= arena.left => sprites[i].vx >= 0
                /\ (RectLeft(m) > arena.left /\ RectRight(m) >= arena.right) =>
                      sprites[i].vx <= 0
                /\ RectTop(m) <= arena.top => sprites[i].vy >= 0
                /\ (RectTop(m) > arena.top /\ RectBottom(m) >= arena.bottom) =>
                      sprites[i].vy <= 0

====
